---- MODULE Spec2Model ----
(***************************************************************************)
(* Model of coord/src/sink_connector.rs: building a sink connector from a  *)
(* SinkConnectorBuilder.  A Kafka builder registers a topic (resolving     *)
(* defaulted partition count / replication factor from the broker's        *)
(* configuration), publishes its schemas and optionally registers a        *)
(* consistency topic.  An Avro OCF builder derives a file name and claims  *)
(* it with an exclusive create.                                            *)
(*                                                                         *)
(* The broker, the schema registry and the filesystem are external: what   *)
(* they answer to a call is chosen nondeterministically at the call, the   *)
(* state they keep (existing topics, existing files) is a variable.        *)
(***************************************************************************)
EXTENDS Integers, Sequences, FiniteSets, TLC

\* ------------------------------------------------------------------ bounds

\* Number of build slots (builds that can be in flight at once).
NumBuilds == 2
\* Number of builds started in one behaviour.
MaxBuilds == 2
\* Explicit partition counts / replication factors range over 1..MaxCount.
MaxCount == 2
\* A downstream writer appends at most this many records to a sink file.
MaxWrites == 1

Builds == 1..NumBuilds

\* ------------------------------------------------------------------ values

\* Option<T>: None or Some(v).
None == <<"None">>
Some(v) == <<"Some", v>>
IsSome(o) == o[1] = "Some"
IsNone(o) == o[1] = "None"
Unwrap(o) == o[2]

\* The "use the broker's default" value of partition_count / replication_factor.
Sentinel == 0 - 1

I32Min == (0 - 2147483647) - 1
I32Max == 2147483647

\* ------------------------------------------------------------------ text

RECURSIVE StrOf(_)
\* The string spelled by a sequence of characters.
StrOf(cs) == IF cs = <<>> THEN "" ELSE Head(cs) \o StrOf(Tail(cs))

Digits == <<"0", "1", "2", "3", "4", "5", "6", "7", "8", "9">>

IsDigit(c) == \E i \in 1..10 : Digits[i] = c

DigitVal(c) == (CHOOSE i \in 1..10 : Digits[i] = c) - 1

RECURSIVE ParseDigits(_, _, _)
\* Accumulates the digits of cs into acc, with the sign applied digit by digit
\* as i32::from_str does (checked_mul, then checked_add or checked_sub): the
\* result is None on a non-digit or on i32 overflow.  The overflow test is
\* made before the multiplication, on the bounds divided by ten.
ParseDigits(cs, acc, sign) ==
    IF cs = <<>> THEN Some(acc)
    ELSE IF ~IsDigit(Head(cs)) THEN None
    ELSE LET d == DigitVal(Head(cs))
             overflow == IF sign = 1
                         THEN acc > (I32Max - d) \div 10
                         ELSE acc < (I32Min + d + 9) \div 10
         IN  IF overflow THEN None
             ELSE ParseDigits(Tail(cs), acc * 10 + sign * d, sign)

\* s.parse::<i32>(): an optional sign followed by at least one digit.
ParseI32(cs) ==
    IF cs = <<>> THEN None
    ELSE IF Head(cs) = "-"
         THEN IF Len(cs) = 1 THEN None ELSE ParseDigits(Tail(cs), 0, 0 - 1)
         ELSE IF Head(cs) = "+"
              THEN IF Len(cs) = 1 THEN None ELSE ParseDigits(Tail(cs), 0, 1)
              ELSE ParseDigits(cs, 0, 1)

\* id.to_string(): the sink identifier as text.
id_to_string(id) == ToString(id)

\* ------------------------------------------------------------------ paths

Front(s) == SubSeq(s, 1, Len(s) - 1)

RECURSIVE TrimRight(_)
\* A path without the trailing separators and "." components that
\* Path::components skips; the root "/" is kept.
TrimRight(p) ==
    IF Len(p) > 1 /\ p[Len(p)] = "/" THEN TrimRight(Front(p))
    ELSE IF Len(p) >= 2 /\ p[Len(p)] = "." /\ p[Len(p) - 1] = "/"
         THEN TrimRight(Front(p))
         ELSE p

\* Index of the last occurrence of c in s, 0 when there is none.
LastIndexOf(s, c) ==
    LET hits == {i \in 1..Len(s) : s[i] = c}
    IN  IF hits = {} THEN 0 ELSE CHOOSE i \in hits : \A j \in hits : j <= i

\* Path::file_name(): the last component when it is a normal one.
file_name(p) ==
    LET t   == TrimRight(p)
        seg == SubSeq(t, LastIndexOf(t, "/") + 1, Len(t))
    IN  IF seg \in {<<>>, <<".">>, <<".", ".">>} THEN None ELSE Some(seg)

\* rsplit_file_at_dot: (before, after) around the last dot of a file name.
rsplit_file_at_dot(f) ==
    LET dot == LastIndexOf(f, ".")
    IN  IF f = <<".", ".">> THEN <<Some(f), None>>
        ELSE IF dot = 0 THEN <<None, Some(f)>>
        ELSE IF dot = 1 THEN <<Some(f), None>>
        ELSE <<Some(SubSeq(f, 1, dot - 1)), Some(SubSeq(f, dot + 1, Len(f)))>>

\* Mutation: a path without a file name has the empty stem.
file_stem_or_empty(p) ==
    IF IsNone(file_name(p)) THEN Some(<<>>)
    ELSE LET ba == rsplit_file_at_dot(Unwrap(file_name(p)))
         IN  IF IsSome(ba[1]) THEN ba[1] ELSE ba[2]

\* Path::file_stem(): before.or(after).
file_stem(p) ==
    IF IsNone(file_name(p)) THEN None
    ELSE LET ba == rsplit_file_at_dot(Unwrap(file_name(p)))
         IN  IF IsSome(ba[1]) THEN ba[1] ELSE ba[2]

\* Path::extension(): before.and(after).
extension(p) ==
    IF IsNone(file_name(p)) THEN None
    ELSE LET ba == rsplit_file_at_dot(Unwrap(file_name(p)))
         IN  IF IsSome(ba[1]) THEN ba[2] ELSE None

\* Path::parent() of a path that has a file name, as the text PathBuf::pop
\* truncates to.
parent(p) ==
    LET t == TrimRight(p)
    IN  TrimRight(SubSeq(t, 1, LastIndexOf(t, "/")))

\* Path::with_file_name(name) for a path that has a file name: pop the last
\* component, then push name (a separator is added unless the parent is empty
\* or ends with one).
with_file_name(p, name) ==
    LET dir == StrOf(parent(p))
    IN  IF parent(p) = <<>> THEN name
        ELSE IF parent(p)[Len(parent(p))] = "/" THEN dir \o name
        ELSE dir \o "/" \o name

\* The file name build_avro_ocf derives: <stem>-<id>-<suffix>[.<extension>].
ocf_file_name(path, id, suffix) ==
    LET base == StrOf(Unwrap(file_stem(path))) \o "-" \o id_to_string(id)
                    \o "-" \o suffix
    IN  IF IsSome(extension(path))
        THEN base \o "." \o StrOf(Unwrap(extension(path)))
        ELSE base

\* The path build_avro_ocf opens.
ocf_path(path, id, suffix) == with_file_name(path, ocf_file_name(path, id, suffix))

\* ------------------------------------------------------------------ inputs

\* Sink identifiers.
Ids == {3, 7}

\* partition_count / replication_factor of a builder: explicit or defaulted.
Counts == {Sentinel} \cup (1..MaxCount)

KafkaBuilders ==
    [variant : {"Kafka"}, id : Ids,
     topic_prefix : {"p"}, topic_suffix : {"s"},
     partition_count : Counts, replication_factor : Counts,
     value_schema : {"v"},
     key_schema : {None, Some("k")},
     consistency_value_schema : {None, Some("c")}]

BasePaths ==
    { <<"/", "o", "u", "t", "/", "d", "a", "t", "a", ".", "a", "v", "r", "o">>,
      <<"/", "o", "u", "t", "/", "d", "a", "t", "a">>,
      <<"/">> }

AvroOcfBuilders ==
    [variant : {"AvroOcf"}, id : Ids, path : BasePaths, file_name_suffix : {"x"}]

\* What a sequential coordinator may be asked to build.
Builders == KafkaBuilders \cup AvroOcfBuilders

\* What a coordinator that builds a sink, and on failure builds it again, is
\* asked to build: one topic name, with key and consistency schemas and the
\* counts given, or with neither and the replication factor left to the
\* broker.
RetryBuilders ==
    {bld \in KafkaBuilders :
        /\ bld.id = 3
        /\ bld.partition_count = 1
        /\ \/ /\ bld.replication_factor = 1
              /\ IsSome(bld.key_schema)
              /\ IsSome(bld.consistency_value_schema)
           \/ /\ bld.replication_factor = Sentinel
              /\ IsNone(bld.key_schema)
              /\ IsNone(bld.consistency_value_schema)}

\* Builders whose prefixes, suffixes and base paths contain the separator
\* and digits, for sinks 1 and 2.
NameBuilders ==
    [variant : {"Kafka"}, id : {1, 2},
     topic_prefix : {"a", "a-1"}, topic_suffix : {"b", "2-b"},
     partition_count : {1}, replication_factor : {1},
     value_schema : {"v"}, key_schema : {None},
     consistency_value_schema : {None}]
    \cup
    [variant : {"AvroOcf"}, id : {1, 2},
     path : {<<"/", "a">>, <<"/", "a", "-", "1">>},
     file_name_suffix : {"b", "2-b"}]

\* What concurrently running file-variant builds are asked to build.
ConcurrentBuilders == AvroOcfBuilders

\* ------------------------------------------------------------------ the broker's answers

\* fetch_metadata: an error (or timeout), or the list of broker ids.
MetadataResponses ==
    {[tag |-> "Err"]} \cup
    {[tag |-> "Ok", brokers |-> bs] : bs \in {<<>>, <<2, 1>>}}

\* The value of a config entry: absent, or text.
ConfigValues ==
    {None, Some(<<"1">>), Some(<<"6">>), Some(<<"0">>), Some(<<"-", "1">>),
     Some(<<"x">>)}

EntryFor(name, vs) == {<<>>} \cup {<<[name |-> name, value |-> v]>> : v \in vs}

\* The entries of one broker's configuration: an unrelated entry, then
\* num.partitions and default.replication.factor when the broker reports them.
\* Each of the two varies over every value while the other is "1".
ConfigEntries ==
    {<<[name |-> "log.dirs", value |-> None]>> \o np \o rf :
        np \in EntryFor("num.partitions", ConfigValues),
        rf \in EntryFor("default.replication.factor", {Some(<<"1">>)})}
    \cup
    {<<[name |-> "log.dirs", value |-> None]>> \o np \o rf :
        np \in EntryFor("num.partitions", {Some(<<"1">>)}),
        rf \in EntryFor("default.replication.factor", ConfigValues)}

\* describe_configs: an error (or timeout), or a list of per-resource results,
\* each the resource's entries or an error.
ConfigResponses ==
    {[tag |-> "Err"]} \cup
    {[tag |-> "Ok", results |-> rs] :
        rs \in {<<>>, <<[tag |-> "Err"]>>, <<[tag |-> "Err"], [tag |-> "Err"]>>}
               \cup {<<[tag |-> "Ok", entries |-> es]>> : es \in ConfigEntries}}

\* The registry gives one id to each distinct schema text.
RegistryId(schema) ==
    CASE schema = "v" -> 1
      [] schema = "k" -> 2
      [] schema = "c" -> 3

\* publish_schema: an error, or the id of the schema.
PublishResponses(schema) ==
    {[tag |-> "Err"], [tag |-> "Ok", id |-> RegistryId(schema)]}

\* create_topics for one topic, as the broker answers it with `existing` the
\* topics it holds: an error (or timeout), or a list of per-topic results.
\* The one result is a success only for a new topic with valid counts.
CreateResponses(topic, partitions, replication, existing) ==
    LET causes == IF topic \in existing THEN {"TopicAlreadyExists"}
                  ELSE {"InvalidReplicationFactor"} \cup
                       (IF partitions < 1 THEN {"InvalidPartitions"} ELSE {})
        accept == IF topic \notin existing /\ partitions >= 1 /\ replication >= 1
                  THEN {<<[tag |-> "Ok", topic |-> topic]>>}
                  ELSE {}
    IN  {[tag |-> "Err"]} \cup
        {[tag |-> "Ok", results |-> rs] :
            rs \in {<<>>, <<[tag |-> "Err", cause |-> "Unknown"],
                            [tag |-> "Err", cause |-> "Unknown"]>>}
                   \cup {<<[tag |-> "Err", cause |-> c]>> : c \in causes}
                   \cup accept}

\* ------------------------------------------------------------------ state

VARIABLES
    pc,        \* per build: where it is
    builder,   \* per build: the SinkConnectorBuilder it was given
    frame,     \* per build: the locals of build_kafka / register_kafka_topic / build_avro_ocf
    calls,     \* per build: the external calls it has made, with their answers
    result,    \* per build: what build returned
    topics,    \* the broker: names of the topics that exist
    files,     \* the filesystem: path -> number of records in the file
    claimed,   \* history: path -> number of builds that returned a connector for it
    started    \* history: number of builds started

vars == <<pc, builder, frame, calls, result, topics, files, claimed, started>>

NoBuilder == [variant |-> "none"]
NoFrame == [role |-> "none"]
NoResult == [tag |-> "none"]

Init ==
    /\ pc = [b \in Builds |-> "idle"]
    /\ builder = [b \in Builds |-> NoBuilder]
    /\ frame = [b \in Builds |-> NoFrame]
    /\ calls = [b \in Builds |-> <<>>]
    /\ result = [b \in Builds |-> NoResult]
    /\ topics = {}
    /\ files = <<>>
    /\ claimed = <<>>
    /\ started = 0

\* ------------------------------------------------------------------ build_kafka, register_kafka_topic

\* Mutation: the sink identifier is left out of the topic name.
kafka_topic_without_id(bld) ==
    bld.topic_prefix \o "-" \o bld.topic_suffix

\* format!("{}-{}-{}", builder.topic_prefix, id, builder.topic_suffix)
kafka_topic(bld) ==
    bld.topic_prefix \o "-" \o id_to_string(bld.id) \o "-" \o bld.topic_suffix

\* format!("{}-consistency", topic)
consistency_topic(topic) == topic \o "-consistency"

value_subject(topic) == topic \o "-value"

key_subject(topic) == topic \o "-key"

\* Mutation: the defaults are looked up for every registration.
needs_defaults_always(partition_count, replication_factor) == TRUE

\* The test that opens register_kafka_topic: is a default to be discovered?
needs_defaults(partition_count, replication_factor) ==
    partition_count = Sentinel \/ replication_factor = Sentinel

\* The first external call of a registration.
register_entry(partition_count, replication_factor) ==
    IF needs_defaults(partition_count, replication_factor)
    THEN "fetch_metadata"
    ELSE "create_topics"

\* The arguments of the primary topic's register_kafka_topic call.
primary_frame(bld) ==
    [role |-> "primary",
     topic |-> kafka_topic(bld),
     partition_count |-> bld.partition_count,
     replication_factor |-> bld.replication_factor,
     value_schema |-> bld.value_schema,
     key_schema |-> bld.key_schema,
     broker |-> None,
     value_schema_id |-> None,
     primary_ids |-> None]

\* Mutation: the consistency topic gets the primary topic's partition count.
consistency_partition_count_primary(bld) == bld.partition_count

\* The partition count build_kafka passes for the consistency topic.
consistency_partition_count(bld) == 1

\* Mutation: the consistency topic is registered with a fixed replication
\* factor, as it is with a fixed partition count.
consistency_frame_fixed_replication(bld, ids) ==
    [role |-> "consistency",
     topic |-> consistency_topic(kafka_topic(bld)),
     partition_count |-> consistency_partition_count(bld),
     replication_factor |-> 1,
     value_schema |-> Unwrap(bld.consistency_value_schema),
     key_schema |-> None,
     broker |-> None,
     value_schema_id |-> None,
     primary_ids |-> Some(ids)]

\* The arguments of the consistency topic's register_kafka_topic call;
\* ids are the (key_schema_id, value_schema_id) of the primary registration.
consistency_frame(bld, ids) ==
    [role |-> "consistency",
     topic |-> consistency_topic(kafka_topic(bld)),
     partition_count |-> consistency_partition_count(bld),
     replication_factor |-> bld.replication_factor,
     value_schema |-> Unwrap(bld.consistency_value_schema),
     key_schema |-> None,
     broker |-> None,
     value_schema_id |-> None,
     primary_ids |-> Some(ids)]

\* The errors whose message names the topic: those of fetch_metadata,
\* describe_configs and create_topics and of the tests of their results. The
\* messages for zero brokers, an unparsable or missing default and a failed
\* schema publication name none.
NamesTopic(kind) ==
    kind \in {"MetadataFetchFailed", "ConfigFetchFailed",
              "UnexpectedConfigResultCount", "ConfigReadError",
              "TopicCreationFailed", "TopicCreationResultCountMismatch",
              "TopicCreationRejected"}

\* The error a registration returns through build_kafka: the failure, the
\* context build_kafka adds for the registration it came from, and the topic
\* when the message names it.
Error(kind, fr) ==
    [kind |-> kind, role |-> fr.role,
     topic |-> IF NamesTopic(kind) THEN Some(fr.topic) ELSE None]

RECURSIVE scan_entries_unguarded(_, _, _)
\* Mutation: an entry's value replaces the count whether or not the count is
\* the sentinel.
scan_entries_unguarded(entries, partition_count, replication_factor) ==
    IF entries = <<>>
    THEN [ok |-> TRUE, partition_count |-> partition_count,
          replication_factor |-> replication_factor]
    ELSE LET entry == Head(entries)
         IN  IF entry.name = "num.partitions"
             THEN IF IsSome(entry.value)
                  THEN LET n == ParseI32(Unwrap(entry.value))
                       IN  IF IsSome(n)
                           THEN scan_entries_unguarded(Tail(entries), Unwrap(n),
                                                       replication_factor)
                           ELSE [ok |-> FALSE, error |-> "UnparsableConfigValue"]
                  ELSE scan_entries_unguarded(Tail(entries), partition_count,
                                              replication_factor)
             ELSE IF entry.name = "default.replication.factor"
             THEN IF IsSome(entry.value)
                  THEN LET n == ParseI32(Unwrap(entry.value))
                       IN  IF IsSome(n)
                           THEN scan_entries_unguarded(Tail(entries), partition_count,
                                                       Unwrap(n))
                           ELSE [ok |-> FALSE, error |-> "UnparsableConfigValue"]
                  ELSE scan_entries_unguarded(Tail(entries), partition_count,
                                              replication_factor)
             ELSE scan_entries_unguarded(Tail(entries), partition_count,
                                         replication_factor)

RECURSIVE scan_entries(_, _, _)
\* The loop over config.entries: fills a count that is still the sentinel
\* from the entry of its name, when the entry has a value.
scan_entries(entries, partition_count, replication_factor) ==
    IF entries = <<>>
    THEN [ok |-> TRUE, partition_count |-> partition_count,
          replication_factor |-> replication_factor]
    ELSE LET entry == Head(entries)
         IN  IF entry.name = "num.partitions" /\ partition_count = Sentinel
             THEN IF IsSome(entry.value)
                  THEN LET n == ParseI32(Unwrap(entry.value))
                       IN  IF IsSome(n)
                           THEN scan_entries(Tail(entries), Unwrap(n), replication_factor)
                           ELSE [ok |-> FALSE, error |-> "UnparsableConfigValue"]
                  ELSE scan_entries(Tail(entries), partition_count, replication_factor)
             ELSE IF entry.name = "default.replication.factor"
                        /\ replication_factor = Sentinel
             THEN IF IsSome(entry.value)
                  THEN LET n == ParseI32(Unwrap(entry.value))
                       IN  IF IsSome(n)
                           THEN scan_entries(Tail(entries), partition_count, Unwrap(n))
                           ELSE [ok |-> FALSE, error |-> "UnparsableConfigValue"]
                  ELSE scan_entries(Tail(entries), partition_count, replication_factor)
             ELSE scan_entries(Tail(entries), partition_count, replication_factor)

\* The error of the two coord_bail! after the loop: "default was requested
\* for ..., but <key> was not found in broker config".
MissingDefaultConfigKey(key) == "MissingDefaultConfigKey:" \o key

\* Mutation: the two tests that the counts were found are missing.
resolve_defaults_unchecked(response, partition_count, replication_factor) ==
    IF response.tag = "Err" THEN [ok |-> FALSE, error |-> "ConfigFetchFailed"]
    ELSE IF Len(response.results) /= 1
    THEN [ok |-> FALSE, error |-> "UnexpectedConfigResultCount"]
    ELSE IF response.results[1].tag = "Err"
    THEN [ok |-> FALSE, error |-> "ConfigReadError"]
    ELSE scan_entries(response.results[1].entries,
                      partition_count, replication_factor)

\* What register_kafka_topic makes of the answer to describe_configs: the
\* resolved counts, or the error it bails with.
resolve_defaults(response, partition_count, replication_factor) ==
    IF response.tag = "Err" THEN [ok |-> FALSE, error |-> "ConfigFetchFailed"]
    ELSE IF Len(response.results) /= 1
    THEN [ok |-> FALSE, error |-> "UnexpectedConfigResultCount"]
    ELSE IF response.results[1].tag = "Err"
    THEN [ok |-> FALSE, error |-> "ConfigReadError"]
    ELSE LET r == scan_entries(response.results[1].entries,
                               partition_count, replication_factor)
         IN  IF ~r.ok THEN r
             ELSE IF r.partition_count = Sentinel
             THEN [ok |-> FALSE, error |-> MissingDefaultConfigKey("num.partitions")]
             ELSE IF r.replication_factor = Sentinel
             THEN [ok |-> FALSE,
                   error |-> MissingDefaultConfigKey("default.replication.factor")]
             ELSE r

\* Mutation: the last broker of the list is asked.
last_broker(brokers) == brokers[Len(brokers)]

\* metadata.brokers()[0].id(): the broker whose configuration is read.
first_broker(brokers) == brokers[1]

\* Mutation: with no broker to ask, the lookup is skipped and the topic is
\* created with the counts as given.
after_metadata_skip_empty(response) ==
    IF response.tag = "Err"
    THEN [error |-> Some("MetadataFetchFailed"), next |-> "done", broker |-> None]
    ELSE IF Len(response.brokers) = 0
    THEN [error |-> None, next |-> "create_topics", broker |-> None]
    ELSE [error |-> None, next |-> "describe_configs",
          broker |-> Some(response.brokers[1])]

\* What register_kafka_topic makes of the answer to fetch_metadata: the error
\* it bails with, or the broker to describe.
after_metadata(response) ==
    IF response.tag = "Err"
    THEN [error |-> Some("MetadataFetchFailed"), next |-> "done", broker |-> None]
    ELSE IF Len(response.brokers) = 0
    THEN [error |-> Some("NoBrokersDiscovered"), next |-> "done", broker |-> None]
    ELSE [error |-> None, next |-> "describe_configs",
          broker |-> Some(first_broker(response.brokers))]

\* Mutation: the one result of create_topics is not examined.
creation_error_result_unexamined(response) ==
    IF response.tag = "Err" THEN Some("TopicCreationFailed")
    ELSE IF Len(response.results) /= 1 THEN Some("TopicCreationResultCountMismatch")
    ELSE None

\* Mutation: a creation rejected because the topic exists counts as done.
creation_error_existing_accepted(response) ==
    IF response.tag = "Err" THEN Some("TopicCreationFailed")
    ELSE IF Len(response.results) /= 1 THEN Some("TopicCreationResultCountMismatch")
    ELSE IF response.results[1].tag = "Err"
              /\ response.results[1].cause /= "TopicAlreadyExists"
    THEN Some("TopicCreationRejected")
    ELSE None

\* What register_kafka_topic makes of the answer to create_topics.
creation_error(response) ==
    IF response.tag = "Err" THEN Some("TopicCreationFailed")
    ELSE IF Len(response.results) /= 1 THEN Some("TopicCreationResultCountMismatch")
    ELSE IF response.results[1].tag = "Err" THEN Some("TopicCreationRejected")
    ELSE None

\* The broker's topics after it answered a create_topics request.
TopicsAfterCreate(response, existing) ==
    IF response.tag = "Ok" /\ Len(response.results) = 1
          /\ response.results[1].tag = "Ok"
    THEN existing \cup {response.results[1].topic}
    ELSE existing

\* Mutation: the topic is deleted again when its schema cannot be published.
TopicsAfterPublishFailure_Delete(topic, existing) == existing \ {topic}

\* The broker's topics after a schema publication for `topic` failed:
\* register_kafka_topic returns the error and leaves the topic in place.
TopicsAfterPublishFailure(topic, existing) == existing

Log(b, entry) == calls' = [calls EXCEPT ![b] = Append(@, entry)]

\* Mutation: a failed step is tried again instead of ending the build.
Fail_Retry(b, kind) == UNCHANGED <<result, pc>>

\* `?` / coord_bail!: the build returns the error of the step that failed.
Fail(b, kind) ==
    /\ result' = [result EXCEPT ![b] = [tag |-> "Err", error |-> Error(kind, frame[b])]]
    /\ pc' = [pc EXCEPT ![b] = "done"]

\* Mutation: the consistency record carries the primary topic's value schema id.
kafka_connector_primary_schema_id(bld, ids, consistency) ==
    [variant |-> "Kafka",
     key_schema_id |-> ids[1],
     value_schema_id |-> ids[2],
     topic |-> kafka_topic(bld),
     consistency |-> IF IsSome(consistency)
                     THEN Some([topic |-> Unwrap(consistency).topic,
                                schema_id |-> ids[2]])
                     ELSE None]

\* Mutation: build_kafka wraps its result as the file variant's connector.
kafka_connector_as_file(bld, ids, consistency) ==
    [variant |-> "AvroOcf", path |-> kafka_topic(bld)]

\* The connector build_kafka returns.
kafka_connector(bld, ids, consistency) ==
    [variant |-> "Kafka",
     key_schema_id |-> ids[1],
     value_schema_id |-> ids[2],
     topic |-> kafka_topic(bld),
     consistency |-> consistency]

\* register_kafka_topic returned Ok((key_schema_id, value_schema_id)) to
\* build_kafka, which registers the consistency topic or returns the connector.
Registered(b, key_schema_id, value_schema_id) ==
    LET fr == frame[b]
        bld == builder[b]
    IN  IF fr.role = "primary"
        THEN IF IsSome(bld.consistency_value_schema)
             THEN /\ frame' = [frame EXCEPT ![b] =
                        consistency_frame(bld, <<key_schema_id, value_schema_id>>)]
                  /\ pc' = [pc EXCEPT ![b] =
                        register_entry(consistency_partition_count(bld),
                                       bld.replication_factor)]
                  /\ UNCHANGED result
             ELSE /\ result' = [result EXCEPT ![b] =
                        [tag |-> "Ok",
                         connector |-> kafka_connector(
                             bld, <<key_schema_id, value_schema_id>>, None)]]
                  /\ pc' = [pc EXCEPT ![b] = "done"]
                  /\ UNCHANGED frame
        ELSE /\ result' = [result EXCEPT ![b] =
                   [tag |-> "Ok",
                    connector |-> kafka_connector(
                        bld, Unwrap(fr.primary_ids),
                        Some([topic |-> fr.topic, schema_id |-> value_schema_id]))]]
             /\ pc' = [pc EXCEPT ![b] = "done"]
             /\ UNCHANGED frame

\* client.inner().fetch_metadata(None, 5 s), and the test of the broker list.
FetchMetadata(b) ==
    /\ pc[b] = "fetch_metadata"
    /\ \E r \in MetadataResponses :
        LET m == after_metadata(r)
        IN  /\ Log(b, [call |-> "fetch_metadata", role |-> frame[b].role,
                       response |-> r])
            /\ IF IsSome(m.error)
               THEN Fail(b, Unwrap(m.error)) /\ UNCHANGED frame
               ELSE /\ frame' = [frame EXCEPT ![b].broker = m.broker]
                    /\ pc' = [pc EXCEPT ![b] = m.next]
                    /\ UNCHANGED result
    /\ UNCHANGED <<builder, topics, files, claimed, started>>

\* client.describe_configs(&[Broker(broker)], 5 s), and the resolution of the
\* defaults from its answer.
DescribeConfigs(b) ==
    /\ pc[b] = "describe_configs"
    /\ \E r \in ConfigResponses :
        LET res == resolve_defaults(r, frame[b].partition_count,
                                    frame[b].replication_factor)
        IN  /\ Log(b, [call |-> "describe_configs", role |-> frame[b].role,
                       broker |-> Unwrap(frame[b].broker), response |-> r])
            /\ IF ~res.ok
               THEN Fail(b, res.error) /\ UNCHANGED frame
               ELSE /\ frame' = [frame EXCEPT
                          ![b].partition_count = res.partition_count,
                          ![b].replication_factor = res.replication_factor]
                    /\ pc' = [pc EXCEPT ![b] = "create_topics"]
                    /\ UNCHANGED result
    /\ UNCHANGED <<builder, topics, files, claimed, started>>

\* client.create_topics(&[NewTopic::new(topic, partition_count,
\* Fixed(replication_factor))], 5 s), and the test of its one result.
CreateTopics(b) ==
    /\ pc[b] = "create_topics"
    /\ \E r \in CreateResponses(frame[b].topic, frame[b].partition_count,
                                frame[b].replication_factor, topics) :
        /\ Log(b, [call |-> "create_topics", role |-> frame[b].role,
                   topic |-> frame[b].topic,
                   partitions |-> frame[b].partition_count,
                   replication |-> frame[b].replication_factor,
                   response |-> r])
        /\ topics' = TopicsAfterCreate(r, topics)
        /\ IF IsSome(creation_error(r))
           THEN Fail(b, Unwrap(creation_error(r)))
           ELSE /\ pc' = [pc EXCEPT ![b] = "publish_value"]
                /\ UNCHANGED result
    /\ UNCHANGED <<builder, frame, files, claimed, started>>

\* ccsr.publish_schema("<topic>-value", value_schema); without a key schema
\* the registration returns here.
PublishValue(b) ==
    /\ pc[b] = "publish_value"
    /\ \E r \in PublishResponses(frame[b].value_schema) :
        /\ Log(b, [call |-> "publish_schema", role |-> frame[b].role,
                   subject |-> value_subject(frame[b].topic),
                   schema |-> frame[b].value_schema, response |-> r])
        /\ IF r.tag = "Err"
           THEN /\ Fail(b, "SchemaPublishFailure")
                /\ topics' = TopicsAfterPublishFailure(frame[b].topic, topics)
                /\ UNCHANGED frame
           ELSE /\ UNCHANGED topics
                /\ IF IsSome(frame[b].key_schema)
                   THEN /\ frame' = [frame EXCEPT ![b].value_schema_id = Some(r.id)]
                        /\ pc' = [pc EXCEPT ![b] = "publish_key"]
                        /\ UNCHANGED result
                   ELSE Registered(b, None, r.id)
    /\ UNCHANGED <<builder, files, claimed, started>>

\* ccsr.publish_schema("<topic>-key", key_schema), then the registration returns.
PublishKey(b) ==
    /\ pc[b] = "publish_key"
    /\ \E r \in PublishResponses(Unwrap(frame[b].key_schema)) :
        /\ Log(b, [call |-> "publish_schema", role |-> frame[b].role,
                   subject |-> key_subject(frame[b].topic),
                   schema |-> Unwrap(frame[b].key_schema), response |-> r])
        /\ IF r.tag = "Err"
           THEN /\ Fail(b, "SchemaPublishFailure")
                /\ topics' = TopicsAfterPublishFailure(frame[b].topic, topics)
                /\ UNCHANGED frame
           ELSE /\ UNCHANGED topics
                /\ Registered(b, Some(r.id), Unwrap(frame[b].value_schema_id))
    /\ UNCHANGED <<builder, files, claimed, started>>

\* ------------------------------------------------------------------ build_avro_ocf

\* Mutation: create(true).truncate(true) in place of create_new(true): an
\* existing file is opened and emptied.
open_create_truncate(fs, path, denied) ==
    IF denied
    THEN [ok |-> FALSE, cause |-> "PermissionDenied", fs |-> fs]
    ELSE [ok |-> TRUE, cause |-> "", fs |-> [p \in DOMAIN fs \cup {path} |->
                                         IF p = path THEN 0 ELSE fs[p]]]

\* Mutation: create(true) in place of create_new(true): an existing file is
\* opened for appending.
open_create_append(fs, path, denied) ==
    IF denied
    THEN [ok |-> FALSE, cause |-> "PermissionDenied", fs |-> fs]
    ELSE [ok |-> TRUE, cause |-> "", fs |-> [p \in DOMAIN fs \cup {path} |->
                                         IF p \in DOMAIN fs THEN fs[p] ELSE 0]]

\* OpenOptions::new().append(true).create_new(true).open(path) on the
\* filesystem fs; denied says the OS refuses the process access to the
\* path's directory, which it tests before it looks for the file. Otherwise
\* the open fails when the path exists and creates it empty when it does not.
open_create_new(fs, path, denied) ==
    IF denied
    THEN [ok |-> FALSE, cause |-> "PermissionDenied", fs |-> fs]
    ELSE IF path \in DOMAIN fs
    THEN [ok |-> FALSE, cause |-> "AlreadyExists", fs |-> fs]
    ELSE [ok |-> TRUE, cause |-> "", fs |-> [p \in DOMAIN fs \cup {path} |->
                                         IF p = path THEN 0 ELSE fs[p]]]

\* One more build returned a connector for path.
Claim(path) ==
    [p \in DOMAIN claimed \cup {path} |->
        IF p = path
        THEN (IF p \in DOMAIN claimed THEN claimed[p] + 1 ELSE 1)
        ELSE claimed[p]]

\* The exclusive creation of the sink file, and build_avro_ocf's return.
OpenNew(b) ==
    /\ pc[b] = "open"
    /\ \E denied \in BOOLEAN :
        LET r == open_create_new(files, frame[b].path, denied)
        IN  /\ Log(b, [call |-> "open", role |-> "file", path |-> frame[b].path,
                       response |-> [tag |-> IF r.ok THEN "Ok" ELSE "Err",
                                     cause |-> r.cause]])
            /\ files' = r.fs
            /\ IF r.ok
               THEN /\ result' = [result EXCEPT ![b] =
                          [tag |-> "Ok",
                           connector |-> [variant |-> "AvroOcf",
                                          path |-> frame[b].path]]]
                    /\ claimed' = Claim(frame[b].path)
               ELSE /\ result' = [result EXCEPT ![b] =
                          [tag |-> "Err",
                           error |-> [kind |-> "SinkFileAlreadyExists",
                                      role |-> "file",
                                      path |-> frame[b].path,
                                      cause |-> r.cause]]]
                    /\ UNCHANGED claimed
            /\ pc' = [pc EXCEPT ![b] = "done"]
    /\ UNCHANGED <<builder, frame, topics, started>>

\* ------------------------------------------------------------------ build

\* build: the dispatch on the builder's variant, up to the first external
\* call of the path taken.
Build(b, bld) ==
    /\ pc[b] = "idle"
    /\ \A c \in Builds : c < b => pc[c] /= "idle"
    /\ started < MaxBuilds
    /\ started' = started + 1
    /\ builder' = [builder EXCEPT ![b] = bld]
    /\ IF bld.variant = "Kafka"
       THEN /\ frame' = [frame EXCEPT ![b] = primary_frame(bld)]
            /\ pc' = [pc EXCEPT ![b] =
                  register_entry(bld.partition_count, bld.replication_factor)]
            /\ UNCHANGED result
       ELSE IF IsNone(file_stem(bld.path))
       THEN /\ result' = [result EXCEPT ![b] =
                  [tag |-> "Err",
                   error |-> [kind |-> "PathMissingFileStem", role |-> "file",
                              path |-> StrOf(bld.path), cause |-> ""]]]
            /\ pc' = [pc EXCEPT ![b] = "done"]
            /\ UNCHANGED frame
       ELSE /\ frame' = [frame EXCEPT ![b] =
                  [role |-> "file",
                   path |-> ocf_path(bld.path, bld.id, bld.file_name_suffix)]]
            /\ pc' = [pc EXCEPT ![b] = "open"]
            /\ UNCHANGED result
    /\ UNCHANGED <<calls, topics, files, claimed>>

\* A coordinator that awaits each build before it starts the next.
BuildSequential(b) ==
    /\ \A c \in Builds : pc[c] = "idle"
    /\ \E bld \in Builders : Build(b, bld)

\* Builds started while others are in flight.
BuildConcurrent(b) ==
    \E bld \in ConcurrentBuilders : Build(b, bld)

\* The caller takes the result; the slot is free for another build.
Return(b) ==
    /\ pc[b] = "done"
    /\ pc' = [pc EXCEPT ![b] = "idle"]
    /\ builder' = [builder EXCEPT ![b] = NoBuilder]
    /\ frame' = [frame EXCEPT ![b] = NoFrame]
    /\ calls' = [calls EXCEPT ![b] = <<>>]
    /\ result' = [result EXCEPT ![b] = NoResult]
    /\ UNCHANGED <<topics, files, claimed, started>>

\* The downstream writer appends a record to a sink file.
Write(path) ==
    /\ path \in DOMAIN files
    /\ files[path] < MaxWrites
    /\ files' = [files EXCEPT ![path] = @ + 1]
    /\ UNCHANGED <<pc, builder, frame, calls, result, topics, claimed, started>>

Step(b) ==
    \/ FetchMetadata(b)
    \/ DescribeConfigs(b)
    \/ CreateTopics(b)
    \/ PublishValue(b)
    \/ PublishKey(b)
    \/ OpenNew(b)
    \/ Return(b)

\* One coordinator building sinks of both variants, one build after the
\* other; what writers later append to the sink files is not followed here.
Next ==
    \/ \E b \in Builds : BuildSequential(b)
    \/ \E b \in Builds : Step(b)

Spec == Init /\ [][Next]_vars

\* File-variant builds running concurrently against one filesystem that
\* the writers of the sinks append to.
NextConcurrent ==
    \/ \E b \in Builds : BuildConcurrent(b)
    \/ \E b \in Builds : OpenNew(b)
    \/ \E b \in Builds : Return(b)
    \/ \E path \in DOMAIN files : Write(path)

SpecConcurrent == Init /\ [][NextConcurrent]_vars

\* A first build, or one more attempt after the builds before it failed and
\* one of them left its primary topic behind; what they returned stays on
\* record.
BuildRetry(b) ==
    /\ \A c \in Builds : pc[c] \in {"idle", "done"}
    /\ \A c \in Builds : c < b => result[c].tag = "Err"
    /\ b > 1 => \E c \in Builds : c < b /\ kafka_topic(builder[c]) \in topics
    /\ \E bld \in RetryBuilders : Build(b, bld)

\* A coordinator that builds a broker-variant sink and, when the build fails
\* with the topic created, builds it again, against a broker whose topics
\* nobody deletes.
NextRetry ==
    \/ \E b \in Builds : BuildRetry(b)
    \/ \E b \in Builds : FetchMetadata(b)
    \/ \E b \in Builds : DescribeConfigs(b)
    \/ \E b \in Builds : CreateTopics(b)
    \/ \E b \in Builds : PublishValue(b)
    \/ \E b \in Builds : PublishKey(b)

SpecRetry == Init /\ [][NextRetry]_vars

\* A build for any of the name builders, started after the builds before it
\* returned; what they were asked and what they returned stays on record.
BuildNames(b) ==
    /\ \A c \in Builds : pc[c] \in {"idle", "done"}
    /\ \E bld \in NameBuilders : Build(b, bld)

\* A coordinator building sinks of both variants, one after the other, for
\* prefixes, suffixes and base paths of the user's choosing.
NextNames ==
    \/ \E b \in Builds : BuildNames(b)
    \/ \E b \in Builds : CreateTopics(b)
    \/ \E b \in Builds : PublishValue(b)
    \/ \E b \in Builds : OpenNew(b)

SpecNames == Init /\ [][NextNames]_vars

\* ------------------------------------------------------------------ properties

\* The indices of build b's calls of kind `call` made by its registration `role`.
CallsOf(b, role, call) ==
    {i \in 1..Len(calls[b]) : calls[b][i].role = role /\ calls[b][i].call = call}

Roles == {"primary", "consistency"}

Returned(b) == pc[b] = "done"

ReturnedOk(b) == pc[b] = "done" /\ result[b].tag = "Ok"

ReturnedErr(b, kind) ==
    pc[b] = "done" /\ result[b].tag = "Err" /\ result[b].error.kind = kind

\* The counts build_kafka hands to register_kafka_topic for `role`.
Supplied(b, role) ==
    IF role = "primary"
    THEN [partition_count |-> builder[b].partition_count,
          replication_factor |-> builder[b].replication_factor]
    ELSE [partition_count |-> 1,
          replication_factor |-> builder[b].replication_factor]

\* C1: a file-variant build whose derived path already exists fails with
\* SinkFileAlreadyExists, creates no file and leaves the existing file as it
\* was; so no path is ever returned by more than one build.
C1_ExistingFileRefused ==
    /\ [](\A p \in DOMAIN claimed : claimed[p] <= 1)
    /\ [][\A b \in Builds :
            (pc[b] = "open" /\ pc'[b] = "done" /\ frame[b].path \in DOMAIN files)
            => /\ result'[b].tag = "Err"
               /\ result'[b].error.kind = "SinkFileAlreadyExists"
               /\ files' = files]_vars

\* C1 witness: a build was refused a path that an earlier build claimed and a
\* writer has since appended to.
C1_Witness ==
    \E b \in Builds :
        /\ ReturnedErr(b, "SinkFileAlreadyExists")
        /\ result[b].error.cause = "AlreadyExists"
        /\ result[b].error.path \in DOMAIN claimed
        /\ files[result[b].error.path] > 0

\* C2: of the file-variant builds in flight together for one derived path, at
\* most one returns a connector and every other one fails with the
\* file-creation error.
C2_OneConcurrentWinner ==
    \A b, c \in Builds :
        (/\ b /= c
         /\ Returned(b) /\ Returned(c)
         /\ frame[b].role = "file" /\ frame[c].role = "file"
         /\ frame[b].path = frame[c].path
         /\ result[b].tag = "Ok")
        => /\ result[c].tag = "Err"
           /\ result[c].error.kind = "SinkFileAlreadyExists"

\* C2 witness: two builds were in flight for the same path; one holds the
\* connector, the other was refused because the file existed.
C2_Witness ==
    \E b, c \in Builds :
        /\ b /= c
        /\ ReturnedOk(b)
        /\ ReturnedErr(c, "SinkFileAlreadyExists")
        /\ result[c].error.cause = "AlreadyExists"
        /\ result[b].connector.variant = "AvroOcf"
        /\ result[b].connector.path = result[c].error.path

\* The topics build b created: the create_topics calls the broker accepted.
Created(b) ==
    {calls[b][i].topic : i \in
        {j \in 1..Len(calls[b]) :
            /\ calls[b][j].call = "create_topics"
            /\ IsNone(creation_error(calls[b][j].response))}}

\* C3: a build that fails at a schema publication returns no connector, and
\* the topics it created before are still in the broker.
C3_TopicLeftBehind ==
    \A b \in Builds :
        ReturnedErr(b, "SchemaPublishFailure")
        => /\ calls[b][Len(calls[b])].call = "publish_schema"
           /\ calls[b][Len(calls[b])].response.tag = "Err"
           /\ frame[b].topic \in Created(b)
           /\ Created(b) \subseteq topics

\* C3 witness: the key schema of the primary topic could not be published
\* after the topic was created and its value schema published.
C3_Witness ==
    \E b \in Builds :
        /\ ReturnedErr(b, "SchemaPublishFailure")
        /\ calls[b][Len(calls[b])].subject = key_subject(kafka_topic(builder[b]))
        /\ kafka_topic(builder[b]) \in topics

\* Whether a call's answer makes its step fail, and the error the build then
\* returns.
StepError(entry) ==
    CASE entry.call = "fetch_metadata" ->
            IF entry.response.tag = "Err" THEN Some("MetadataFetchFailed")
            ELSE None
      [] entry.call = "describe_configs" ->
            IF entry.response.tag = "Err" THEN Some("ConfigFetchFailed")
            ELSE None
      [] entry.call = "create_topics" -> creation_error(entry.response)
      [] entry.call = "publish_schema" ->
            IF entry.response.tag = "Err" THEN Some("SchemaPublishFailure")
            ELSE None
      [] OTHER -> None

\* The topic of the registration a call was made in.
TopicOf(b, entry) ==
    IF entry.role = "primary" THEN kafka_topic(builder[b])
    ELSE consistency_topic(kafka_topic(builder[b]))

\* C4: a registration issues each of its calls at most once, and a call that
\* fails is the build's last: the build has returned, with the error of that
\* call in that registration, on that topic when the error names one.
C4_NoRetryFirstFailureAborts ==
    \A b \in Builds :
        /\ \A i, j \in 1..Len(calls[b]) :
              (/\ i < j
               /\ calls[b][i].call = calls[b][j].call
               /\ calls[b][i].role = calls[b][j].role)
              => /\ calls[b][i].call = "publish_schema"
                 /\ calls[b][i].subject /= calls[b][j].subject
        /\ \A i \in 1..Len(calls[b]) :
              (calls[b][i].role \in Roles /\ IsSome(StepError(calls[b][i])))
              => /\ i = Len(calls[b])
                 /\ ReturnedErr(b, Unwrap(StepError(calls[b][i])))
                 /\ result[b].error.role = calls[b][i].role
                 /\ result[b].error.topic
                       = IF calls[b][i].call = "publish_schema" THEN None
                         ELSE Some(TopicOf(b, calls[b][i]))

\* C4 witness: the consistency topic's creation timed out after the primary
\* topic was registered with both its schemas.
C4_Witness ==
    \E b \in Builds :
        /\ ReturnedErr(b, "TopicCreationFailed")
        /\ result[b].error.role = "consistency"
        /\ Len(calls[b]) >= 4
        /\ calls[b][Len(calls[b])].response.tag = "Err"
        /\ CallsOf(b, "primary", "publish_schema") /= {}

\* C5: no create_topics request carries the sentinel as partition count or
\* as replication factor.
C5_NoSentinelInCreation ==
    \A b \in Builds : \A i \in 1..Len(calls[b]) :
        calls[b][i].call = "create_topics"
        => /\ calls[b][i].partitions /= Sentinel
           /\ calls[b][i].replication /= Sentinel

\* C5 witness: a builder that defaulted both counts reached topic creation.
C5_Witness ==
    \E b \in Builds :
        /\ builder[b].variant = "Kafka"
        /\ builder[b].partition_count = Sentinel
        /\ builder[b].replication_factor = Sentinel
        /\ CallsOf(b, "primary", "create_topics") /= {}
        /\ CallsOf(b, "consistency", "create_topics") /= {}

\* The parsed value of the entry `name` in the configuration that the
\* registration `role` of build b read, None when it read no such value.
ParsedEntry(b, role, name) ==
    LET ds == CallsOf(b, role, "describe_configs")
    IN  IF ds = {} THEN None
        ELSE LET r  == calls[b][CHOOSE d \in ds : TRUE].response
             IN  IF r.tag = "Err" \/ Len(r.results) /= 1 \/ r.results[1].tag = "Err"
                 THEN None
                 ELSE LET es == r.results[1].entries
                          hits == {k \in 1..Len(es) :
                                      es[k].name = name /\ IsSome(es[k].value)}
                      IN  IF hits = {} THEN None
                          ELSE ParseI32(Unwrap(es[CHOOSE k \in hits : TRUE].value))

\* C6: in a registration that defaulted a count and reached topic creation,
\* the count requested is strictly positive and is the parsed value of the
\* broker's config entry for it.
C6_DefaultsArePositiveParsedValues ==
    \A b \in Builds : \A role \in Roles : \A i \in CallsOf(b, role, "create_topics") :
        /\ Supplied(b, role).partition_count = Sentinel
           => /\ calls[b][i].partitions > 0
              /\ Some(calls[b][i].partitions) = ParsedEntry(b, role, "num.partitions")
        /\ Supplied(b, role).replication_factor = Sentinel
           => /\ calls[b][i].replication > 0
              /\ Some(calls[b][i].replication)
                    = ParsedEntry(b, role, "default.replication.factor")

\* The indices of the calls that registration `role` of build b made.
RoleCalls(b, role) == {i \in 1..Len(calls[b]) : calls[b][i].role = role}

\* C7: a registration given two positive counts fetches no metadata and
\* describes no configuration; its first call is create_topics with the
\* counts it was given.
C7_NoResolutionWhenExplicit ==
    \A b \in Builds : \A role \in Roles :
        (/\ builder[b].variant = "Kafka"
         /\ Supplied(b, role).partition_count > 0
         /\ Supplied(b, role).replication_factor > 0)
        => /\ CallsOf(b, role, "fetch_metadata") = {}
           /\ CallsOf(b, role, "describe_configs") = {}
           /\ \A i \in RoleCalls(b, role) :
                 (\A j \in RoleCalls(b, role) : i <= j)
                 => /\ calls[b][i].call = "create_topics"
                    /\ calls[b][i].partitions = Supplied(b, role).partition_count
                    /\ calls[b][i].replication = Supplied(b, role).replication_factor

\* C7 witness: the primary topic's partition count was defaulted and looked
\* up, and the consistency topic, given 1 and a positive replication factor,
\* went to creation.
C7_Witness ==
    \E b \in Builds :
        /\ builder[b].variant = "Kafka"
        /\ builder[b].partition_count = Sentinel
        /\ builder[b].replication_factor = 2
        /\ CallsOf(b, "primary", "describe_configs") /= {}
        /\ CallsOf(b, "consistency", "create_topics") /= {}

\* C8: a registration that defaults a count describes the configuration at
\* most once, and when it reaches topic creation it has done so exactly once
\* before, asking the first broker of the metadata it fetched.
C8_ConfigQueriedOnce ==
    \A b \in Builds : \A role \in Roles :
        (/\ builder[b].variant = "Kafka"
         /\ \/ Supplied(b, role).partition_count = Sentinel
            \/ Supplied(b, role).replication_factor = Sentinel)
        => /\ Cardinality(CallsOf(b, role, "describe_configs")) <= 1
           /\ \A c \in CallsOf(b, role, "create_topics") :
                 /\ Cardinality(CallsOf(b, role, "describe_configs")) = 1
                 /\ \A d \in CallsOf(b, role, "describe_configs") :
                       /\ d < c
                       /\ \E m \in CallsOf(b, role, "fetch_metadata") :
                             /\ m < d
                             /\ calls[b][m].response.tag = "Ok"
                             /\ calls[b][d].broker = calls[b][m].response.brokers[1]

\* C8 witness: both registrations of a build defaulted the replication
\* factor and each reached topic creation after asking broker 2, the first
\* of the list <<2, 1>>.
C8_Witness ==
    \E b \in Builds :
        /\ builder[b].variant = "Kafka"
        /\ builder[b].replication_factor = Sentinel
        /\ CallsOf(b, "primary", "create_topics") /= {}
        /\ CallsOf(b, "consistency", "create_topics") /= {}
        /\ \A d \in CallsOf(b, "consistency", "describe_configs") :
              calls[b][d].broker = 2

\* Whether entry is a metadata fetch that reported no broker.
ZeroBrokers(entry) ==
    /\ entry.call = "fetch_metadata"
    /\ entry.response.tag = "Ok"
    /\ entry.response.brokers = <<>>

\* C9 as stated: a build that fails with NoBrokersDiscovered has attempted no
\* config description, no topic creation and no schema publication at all.
C9_NoCallsInBuild ==
    \A b \in Builds :
        ReturnedErr(b, "NoBrokersDiscovered")
        => \A i \in 1..Len(calls[b]) :
              calls[b][i].call \notin
                  {"describe_configs", "create_topics", "publish_schema"}

\* C9 amended: when the metadata fetched for a registration reports no
\* broker, that fetch is the build's last call, the build fails with
\* NoBrokersDiscovered for that registration, and that registration has
\* attempted no config description, topic creation or schema publication.
C9_NoCallsInRegistration ==
    \A b \in Builds :
        /\ \A i \in 1..Len(calls[b]) :
              ZeroBrokers(calls[b][i])
              => /\ i = Len(calls[b])
                 /\ ReturnedErr(b, "NoBrokersDiscovered")
                 /\ result[b].error.role = calls[b][i].role
                 /\ CallsOf(b, calls[b][i].role, "describe_configs") = {}
                 /\ CallsOf(b, calls[b][i].role, "create_topics") = {}
                 /\ CallsOf(b, calls[b][i].role, "publish_schema") = {}
        /\ ReturnedErr(b, "NoBrokersDiscovered")
           => /\ calls[b] /= <<>>
              /\ ZeroBrokers(calls[b][Len(calls[b])])

\* C9 witness: the consistency topic's registration found no broker after
\* the primary topic had been created.
C9_Witness ==
    \E b \in Builds :
        /\ ReturnedErr(b, "NoBrokersDiscovered")
        /\ result[b].error.role = "consistency"
        /\ kafka_topic(builder[b]) \in Created(b)

\* C10: every create_topics request of a consistency registration names
\* <primary topic>-consistency with partition count 1, and no schema is
\* published under that topic's -key subject.
C10_ConsistencySinglePartitionNoKey ==
    \A b \in Builds : \A i \in 1..Len(calls[b]) :
        /\ (calls[b][i].call = "create_topics" /\ calls[b][i].role = "consistency")
           => /\ calls[b][i].topic = consistency_topic(kafka_topic(builder[b]))
              /\ calls[b][i].partitions = 1
        /\ calls[b][i].call = "publish_schema"
           => calls[b][i].subject
                 /= key_subject(consistency_topic(kafka_topic(builder[b])))

\* C10 witness: the primary topic, with a key schema, was created with the 6
\* partitions the broker reported, and the consistency topic's value schema
\* was published after its creation.
C10_Witness ==
    \E b \in Builds :
        /\ \E i \in CallsOf(b, "primary", "create_topics") :
              calls[b][i].partitions = 6
        /\ CallsOf(b, "primary", "publish_schema") /= {}
        /\ IsSome(builder[b].key_schema)
        /\ CallsOf(b, "consistency", "create_topics") /= {}
        /\ CallsOf(b, "consistency", "publish_schema") /= {}

\* C11: a build without a consistency schema makes no call of a consistency
\* registration and none that names a -consistency topic or subject, creates
\* at most one topic, and its connector has no consistency record; a build
\* with one returns a connector whose consistency record names
\* <primary topic>-consistency, a topic the build created, and the schema id
\* the registry returned for that topic's -value subject.
C11_ConsistencyIffSchemaSupplied ==
    \A b \in Builds :
        builder[b].variant = "Kafka"
        => LET primary == kafka_topic(builder[b])
               consistency == primary \o "-consistency"
           IN  IF IsNone(builder[b].consistency_value_schema)
               THEN /\ \A i \in 1..Len(calls[b]) :
                          /\ calls[b][i].role = "primary"
                          /\ calls[b][i].call = "create_topics"
                             => calls[b][i].topic = primary
                          /\ calls[b][i].call = "publish_schema"
                             => calls[b][i].subject
                                   \in {primary \o "-value", primary \o "-key"}
                    /\ Created(b) \subseteq {primary}
                    /\ ReturnedOk(b) => IsNone(result[b].connector.consistency)
               ELSE ReturnedOk(b)
                    => /\ IsSome(result[b].connector.consistency)
                       /\ Unwrap(result[b].connector.consistency).topic = consistency
                       /\ Created(b) = {primary, consistency}
                       /\ \E i \in 1..Len(calls[b]) :
                             /\ calls[b][i].call = "publish_schema"
                             /\ calls[b][i].subject = consistency \o "-value"
                             /\ calls[b][i].response.tag = "Ok"
                             /\ calls[b][i].response.id
                                   = Unwrap(result[b].connector.consistency).schema_id

\* C11 witness: a connector whose consistency record carries an id other
\* than the primary topic's value and key schema ids.
C11_Witness ==
    \E b \in Builds :
        /\ ReturnedOk(b)
        /\ result[b].connector.variant = "Kafka"
        /\ IsSome(result[b].connector.consistency)
        /\ IsSome(result[b].connector.key_schema_id)
        /\ Unwrap(result[b].connector.consistency).schema_id
              /= result[b].connector.value_schema_id
        /\ Unwrap(result[b].connector.consistency).schema_id
              /= Unwrap(result[b].connector.key_schema_id)

\* C12: build takes exactly one path. A broker-variant build makes only
\* broker and registry calls, never changes the filesystem and returns only a
\* broker-variant connector; a file-variant build makes only the file
\* creation call, never changes the broker's topics and returns only a
\* file-variant connector.
C12_OnePathPerVariant ==
    /\ [](\A b \in Builds :
            /\ builder[b].variant = "Kafka"
               => /\ \A i \in 1..Len(calls[b]) :
                        /\ calls[b][i].call \in {"fetch_metadata", "describe_configs",
                                                 "create_topics", "publish_schema"}
                        /\ calls[b][i].role \in Roles
                  /\ pc[b] /= "open"
                  /\ ReturnedOk(b) => result[b].connector.variant = "Kafka"
            /\ builder[b].variant = "AvroOcf"
               => /\ \A i \in 1..Len(calls[b]) :
                        calls[b][i].call = "open" /\ calls[b][i].role = "file"
                  /\ pc[b] \in {"open", "done"}
                  /\ ReturnedOk(b) => result[b].connector.variant = "AvroOcf")
    /\ [][\A b \in Builds :
            /\ (builder'[b].variant = "Kafka" /\ pc[b] /= "done")
               => files' = files /\ claimed' = claimed
            /\ (builder'[b].variant = "AvroOcf" /\ pc[b] /= "done")
               => topics' = topics]_vars

\* C12 witness: a broker-variant build returned its connector after the
\* file of an earlier file-variant build was created, and no topic but its
\* own exists.
C12_Witness ==
    \E b \in Builds :
        /\ ReturnedOk(b)
        /\ builder[b].variant = "Kafka"
        /\ DOMAIN files /= {}
        /\ topics = Created(b)

\* C13: a file-variant build whose base path has no last normal component,
\* hence no file stem, has failed with PathMissingFileStem without a
\* filesystem call: it never reaches the file creation, and every file that
\* exists is the file of a build that returned its connector.
C13_NoStemFailsBeforeFilesystem ==
    /\ \A b \in Builds :
          (builder[b].variant = "AvroOcf" /\ IsNone(file_name(builder[b].path)))
          => /\ ReturnedErr(b, "PathMissingFileStem")
             /\ calls[b] = <<>>
             /\ frame[b] = NoFrame
    /\ DOMAIN files = DOMAIN claimed

\* C13 witness: the build for the base path "/" failed while the file of an
\* earlier build exists.
C13_Witness ==
    \E b \in Builds :
        /\ ReturnedErr(b, "PathMissingFileStem")
        /\ builder[b].path = <<"/">>
        /\ result[b].error.path = "/"
        /\ DOMAIN files /= {}

\* The sink file a build for one of the base paths is to create: in the base
\* path's directory, <stem>-<id>-<suffix>, then .<extension> when the base
\* path has one.
ExpectedFile(bld) ==
    CASE StrOf(bld.path) = "/out/data.avro"
           -> "/out/data-" \o ToString(bld.id) \o "-" \o bld.file_name_suffix \o ".avro"
      [] StrOf(bld.path) = "/out/data"
           -> "/out/data-" \o ToString(bld.id) \o "-" \o bld.file_name_suffix
      [] OTHER -> ""

\* C14: the topic a broker-variant build creates first and reports is
\* <prefix>-<id>-<suffix> ("p", 7, "s" gives "p-7-s"); the file a
\* file-variant build creates and reports is <stem>-<id>-<suffix> in the base
\* path's directory, followed by .<extension> exactly when the base path has
\* one ("/out/data.avro", 3, "x" gives "/out/data-3-x.avro"); the names
\* are functions of the builder and the identifier alone, so builds with
\* equal inputs derive equal names.
C14_NamesDerivedFromInputs ==
    \A b \in Builds :
          /\ builder[b].variant = "Kafka"
             => LET name == builder[b].topic_prefix \o "-" \o ToString(builder[b].id)
                                \o "-" \o builder[b].topic_suffix
                IN  /\ \A i \in CallsOf(b, "primary", "create_topics") :
                          calls[b][i].topic = name
                    /\ ReturnedOk(b) => result[b].connector.topic = name
                    /\ (builder[b].topic_prefix = "p" /\ builder[b].id = 7
                            /\ builder[b].topic_suffix = "s")
                       => name = "p-7-s"
          /\ builder[b].variant = "AvroOcf"
             => /\ \A i \in 1..Len(calls[b]) :
                      calls[b][i].path = ExpectedFile(builder[b])
                /\ ReturnedOk(b)
                   => /\ result[b].connector.path = ExpectedFile(builder[b])
                      /\ result[b].connector.path \in DOMAIN files
                /\ (StrOf(builder[b].path) = "/out/data.avro" /\ builder[b].id = 3
                        /\ builder[b].file_name_suffix = "x" /\ pc[b] = "open")
                   => frame[b].path = "/out/data-3-x.avro"

\* C14 witness: the topic p-7-s was created and reported by a build, and an
\* earlier build created the file /out/data-3-x.avro.
C14_Witness ==
    \E b \in Builds :
        /\ ReturnedOk(b)
        /\ result[b].connector.variant = "Kafka"
        /\ result[b].connector.topic = "p-7-s"
        /\ "p-7-s" \in Created(b)
        /\ "/out/data-3-x.avro" \in DOMAIN claimed

\* The call answered with exactly one successful topic-creation result.
CreatedOne(entry) ==
    /\ entry.call = "create_topics"
    /\ entry.response.tag = "Ok"
    /\ Len(entry.response.results) = 1
    /\ entry.response.results[1].tag = "Ok"

\* The call published `subject` and the registry returned an id.
Published(entry, subject) ==
    /\ entry.call = "publish_schema"
    /\ entry.subject = subject
    /\ entry.response.tag = "Ok"

\* C15: the steps of a build are strictly ordered. A registration that was
\* handed a sentinel requests the creation only right after its metadata
\* fetch and its config query succeeded; a value schema is published, under
\* <topic>-value, only right after the creation of that topic returned
\* exactly one successful result; a key schema is published, under
\* <topic>-key, only right after the value schema of that topic was
\* published; and a call of the consistency registration comes only after
\* every call of the primary registration, whose value schema and, when the
\* builder has one, key schema were published.
C15_StepsStrictlyOrdered ==
    \A b \in Builds : \A i \in 1..Len(calls[b]) :
        LET entry == calls[b][i]
            prev  == calls[b][i - 1]
        IN  /\ (/\ entry.call = "create_topics"
                /\ \/ Supplied(b, entry.role).partition_count = Sentinel
                   \/ Supplied(b, entry.role).replication_factor = Sentinel)
               => /\ i > 2
                  /\ prev.call = "describe_configs" /\ prev.role = entry.role
                  /\ prev.response.tag = "Ok"
                  /\ Len(prev.response.results) = 1
                  /\ prev.response.results[1].tag = "Ok"
                  /\ calls[b][i - 2].call = "fetch_metadata"
                  /\ calls[b][i - 2].role = entry.role
                  /\ calls[b][i - 2].response.tag = "Ok"
            /\ (entry.call = "publish_schema" /\ entry.schema /= "k")
               => /\ i > 1
                  /\ CreatedOne(prev) /\ prev.role = entry.role
                  /\ entry.subject = prev.topic \o "-value"
            /\ (entry.call = "publish_schema" /\ entry.schema = "k")
               => /\ i > 2
                  /\ CreatedOne(calls[b][i - 2])
                  /\ Published(prev, calls[b][i - 2].topic \o "-value")
                  /\ prev.role = entry.role
                  /\ entry.subject = calls[b][i - 2].topic \o "-key"
            /\ entry.role = "consistency"
               => /\ \A j \in 1..Len(calls[b]) :
                        calls[b][j].role = "primary" => j < i
                  /\ \E j \in 1..(i - 1) :
                        Published(calls[b][j], kafka_topic(builder[b]) \o "-value")
                  /\ IsSome(builder[b].key_schema)
                     => \E j \in 1..(i - 1) :
                           Published(calls[b][j], kafka_topic(builder[b]) \o "-key")

\* C15 witness: the creation of the primary topic was rejected after its
\* defaults were resolved, and the build ended there.
C15_Witness ==
    \E b \in Builds :
        /\ ReturnedErr(b, "TopicCreationRejected")
        /\ Len(calls[b]) = 3
        /\ calls[b][2].call = "describe_configs"
        /\ calls[b][3].call = "create_topics"
        /\ IsSome(builder[b].key_schema)

\* The entries a registration's config query was answered with, when the
\* answer was one successful result.
DescribedEntries(b, role) ==
    LET ds == CallsOf(b, role, "describe_configs")
    IN  IF ds = {} THEN None
        ELSE LET r == calls[b][CHOOSE d \in ds : TRUE].response
             IN  IF r.tag = "Err" \/ Len(r.results) /= 1 \/ r.results[1].tag = "Err"
                 THEN None
                 ELSE Some(r.results[1].entries)

\* The broker's configuration has an entry of this name.
HasEntry(entries, name) == \E k \in 1..Len(entries) : entries[k].name = name

\* C16: a registration fails with MissingDefaultConfigKey for a count exactly
\* when the key of that count is absent from the broker's configuration.
\* For a count handed over as the sentinel and a config query answered with
\* the broker's entries: when an entry of the count's key is there, the
\* registration does not fail with MissingDefaultConfigKey for it; when none
\* is there, the registration requests no topic creation, and a registration
\* whose other count was explicit fails with MissingDefaultConfigKey for it.
C16_MissingKeyErrorIffAbsent ==
    \A b \in Builds : \A role \in Roles :
        (builder[b].variant = "Kafka" /\ IsSome(DescribedEntries(b, role)))
        => LET entries == Unwrap(DescribedEntries(b, role))
               failed(key) ==
                   /\ ReturnedErr(b, "MissingDefaultConfigKey:" \o key)
                   /\ result[b].error.role = role
               holds(key, supplied, other) ==
                   supplied = Sentinel
                   => IF HasEntry(entries, key)
                      THEN ~failed(key)
                      ELSE /\ CallsOf(b, role, "create_topics") = {}
                           /\ other /= Sentinel => failed(key)
           IN  /\ holds("num.partitions",
                        Supplied(b, role).partition_count,
                        Supplied(b, role).replication_factor)
               /\ holds("default.replication.factor",
                        Supplied(b, role).replication_factor,
                        Supplied(b, role).partition_count)

\* The text the broker's configuration holds for `name`, when it has an
\* entry of that name with a value.
EntryText(entries, name) ==
    LET hits == {k \in 1..Len(entries) :
                    entries[k].name = name /\ IsSome(entries[k].value)}
    IN  IF hits = {} THEN None ELSE entries[CHOOSE k \in hits : TRUE].value

\* C17: in a registration handed exactly one sentinel, the count supplied
\* explicitly is the one every topic-creation request carries, and the text
\* the broker's configuration holds for that count's key is never parsed:
\* the registration does not fail with UnparsableConfigValue when only that
\* text cannot be parsed.
C17_ExplicitCountUntouched ==
    \A b \in Builds : \A role \in Roles :
        builder[b].variant = "Kafka"
        => LET given == Supplied(b, role)
               unparsed(key) ==
                   /\ IsSome(DescribedEntries(b, role))
                   /\ IsSome(EntryText(Unwrap(DescribedEntries(b, role)), key))
                   /\ IsNone(ParseI32(Unwrap(
                          EntryText(Unwrap(DescribedEntries(b, role)), key))))
               failed == /\ ReturnedErr(b, "UnparsableConfigValue")
                         /\ result[b].error.role = role
           IN  /\ (given.partition_count /= Sentinel
                      /\ given.replication_factor = Sentinel)
                  => /\ \A i \in CallsOf(b, role, "create_topics") :
                           calls[b][i].partitions = given.partition_count
                     /\ (unparsed("num.partitions")
                            /\ ~unparsed("default.replication.factor"))
                        => ~failed
               /\ (given.partition_count = Sentinel
                      /\ given.replication_factor /= Sentinel)
                  => /\ \A i \in CallsOf(b, role, "create_topics") :
                           calls[b][i].replication = given.replication_factor
                     /\ (unparsed("default.replication.factor")
                            /\ ~unparsed("num.partitions"))
                        => ~failed

\* C17 witness: a primary topic was requested with the 2 partitions the
\* builder supplied and the replication factor the broker reported, while the
\* broker's num.partitions was a text that is no number.
C17_Witness ==
    \E b \in Builds : \E i \in CallsOf(b, "primary", "create_topics") :
        /\ builder[b].partition_count = 2
        /\ builder[b].replication_factor = Sentinel
        /\ calls[b][i].partitions = 2
        /\ calls[b][i].replication = 1
        /\ EntryText(Unwrap(DescribedEntries(b, "primary")), "num.partitions")
              = Some(<<"x">>)

\* C18: the consistency registration is handed the builder's replication
\* factor. When that is the sentinel, a build that returned a connector with
\* a consistency record made exactly two metadata fetches and two config
\* queries, one per registration and the consistency registration's after
\* the primary topic was created, and the consistency topic was requested
\* with the replication factor its own query reported, whatever the primary
\* topic got. When the replication factor is explicit, the consistency
\* registration resolves nothing and requests that factor.
C18_ConsistencyResolvesAgain ==
    \A b \in Builds :
        (builder[b].variant = "Kafka" /\ IsSome(builder[b].consistency_value_schema))
        => IF builder[b].replication_factor = Sentinel
           THEN /\ \A i \in CallsOf(b, "consistency", "create_topics") :
                      /\ Some(calls[b][i].replication)
                            = ParsedEntry(b, "consistency", "default.replication.factor")
                      /\ \E d \in CallsOf(b, "consistency", "describe_configs") :
                            /\ d = i - 1
                            /\ \E c \in CallsOf(b, "primary", "create_topics") : c < d
                /\ ReturnedOk(b)
                   => \A role \in Roles :
                         /\ Cardinality(CallsOf(b, role, "fetch_metadata")) = 1
                         /\ Cardinality(CallsOf(b, role, "describe_configs")) = 1
           ELSE /\ CallsOf(b, "consistency", "fetch_metadata") = {}
                /\ CallsOf(b, "consistency", "describe_configs") = {}
                /\ \A i \in CallsOf(b, "consistency", "create_topics") :
                      calls[b][i].replication = builder[b].replication_factor

\* C18 witness: a build returned a connector whose primary topic has the
\* replication factor 1 and whose consistency topic has 6, each as the
\* broker reported it to that registration.
C18_Witness ==
    \E b \in Builds :
        /\ ReturnedOk(b)
        /\ builder[b].variant = "Kafka"
        /\ \E i \in CallsOf(b, "primary", "create_topics") :
              calls[b][i].replication = 1
        /\ \E i \in CallsOf(b, "consistency", "create_topics") :
              calls[b][i].replication = 6

\* C18 witness of the other case: only the partition count was the
\* sentinel, and the consistency topic was created without a config query.
C18_WitnessExplicit ==
    \E b \in Builds :
        /\ ReturnedOk(b)
        /\ builder[b].variant = "Kafka"
        /\ builder[b].partition_count = Sentinel
        /\ builder[b].replication_factor = 2
        /\ CallsOf(b, "primary", "describe_configs") /= {}
        /\ CallsOf(b, "consistency", "create_topics") /= {}

\* Build b created its primary topic and then failed, and build c was
\* started later for the same prefix, identifier and suffix.
RetryOf(b, c) ==
    /\ b < c
    /\ builder[b].variant = "Kafka" /\ builder[c].variant = "Kafka"
    /\ builder[b].topic_prefix = builder[c].topic_prefix
    /\ builder[b].id = builder[c].id
    /\ builder[b].topic_suffix = builder[c].topic_suffix
    /\ Returned(b) /\ result[b].tag = "Err"
    /\ kafka_topic(builder[b]) \in Created(b)

\* C19 as stated: after a build created its primary topic and then failed,
\* every later build for the same prefix, identifier and suffix fails with
\* TopicCreationRejected at the primary topic's creation and publishes no
\* schema.
C19_RetryFailsRejected ==
    \A b, c \in Builds :
        (RetryOf(b, c) /\ Returned(c))
        => /\ ReturnedErr(c, "TopicCreationRejected")
           /\ result[c].error.role = "primary"
           /\ CallsOf(c, "primary", "publish_schema") = {}

\* C19: after a build created its primary topic and then failed, a later
\* build for the same prefix, identifier and suffix creates no topic,
\* publishes no schema and returns no connector: it fails with
\* TopicCreationRejected at the primary topic's creation when the broker
\* answers that request with its one result, and otherwise with the error of
\* the step that failed before.
C19_RetryNeverSucceeds ==
    \A b, c \in Builds :
        RetryOf(b, c)
        => /\ Created(c) = {}
           /\ \A i \in 1..Len(calls[c]) :
                 /\ calls[c][i].role = "primary"
                 /\ calls[c][i].call /= "publish_schema"
                 /\ (/\ calls[c][i].call = "create_topics"
                     /\ calls[c][i].response.tag = "Ok"
                     /\ Len(calls[c][i].response.results) = 1)
                    => /\ calls[c][i].response.results[1].tag = "Err"
                       /\ ReturnedErr(c, "TopicCreationRejected")
                       /\ result[c].error.topic = Some(kafka_topic(builder[b]))
           /\ Returned(c)
              => /\ result[c].tag = "Err"
                 /\ result[c].error.role = "primary"
                 /\ calls[c] /= <<>>
                 /\ IsSome(StepError(calls[c][Len(calls[c])]))
                    \/ calls[c][Len(calls[c])].call
                          \in {"fetch_metadata", "describe_configs"}

\* C19 witness: the first build failed at the consistency topic after its
\* primary topic was created; the second build, for the same name, was
\* rejected because the topic exists.
C19_Witness ==
    \E b, c \in Builds :
        /\ RetryOf(b, c)
        /\ result[b].error.role = "consistency"
        /\ ReturnedErr(c, "TopicCreationRejected")
        /\ Len(calls[c]) = 1
        /\ calls[c][1].response.results[1].cause = "TopicAlreadyExists"

\* The topic names a broker-variant build derives: its primary topic's and
\* its consistency topic's.
TopicNames(bld) == {kafka_topic(bld), consistency_topic(kafka_topic(bld))}

\* C20: two builds with different sink identifiers never derive the same
\* topic name, counting the primary and the -consistency topic of each, and
\* never derive the same file path, whatever their prefixes, suffixes and
\* base paths.
C20_IdentifierSeparatesNames ==
    \A b, c \in Builds :
        (/\ builder[b].variant /= "none" /\ builder[c].variant /= "none"
         /\ builder[b].id /= builder[c].id)
        => /\ (builder[b].variant = "Kafka" /\ builder[c].variant = "Kafka")
              => TopicNames(builder[b]) \cap TopicNames(builder[c]) = {}
           /\ (frame[b].role = "file" /\ frame[c].role = "file")
              => frame[b].path /= frame[c].path

====
